---- MODULE Spec2Model ----
(***************************************************************************)
(* The SUB (flopy/modflow/mfsub.py) and UPW (flopy/modflow/mfupw.py)       *)
(* package adapters of flopy: constructor, write_file and load of each,    *)
(* over a text stream of records.                                          *)
(*                                                                         *)
(* A text line is a sequence of tokens and a token a sequence of lexemes   *)
(* (one formatted value each), so that two values written with no blank    *)
(* between them make ONE token, as in the text.  A grid array block (the   *)
(* control record and the values of one 2-D array) is one opaque record    *)
(* of the array codec util_2d.                                             *)
(***************************************************************************)
EXTENDS Integers, Sequences, FiniteSets, TLC

\* ------------------------------------------------------------------ bounds
MaxBeds == 2      \* nndb, ndb range over 0..MaxBeds
MaxZones == 2     \* nmz ranges over 0..MaxZones
MaxOc == 2        \* isuboc ranges over 0..MaxOc
MaxPer == 2       \* nper ranges over 1..MaxPer
MaxLay == 2       \* nlay ranges over 1..MaxLay
MaxOps == 2       \* write_file / load calls after the first construction or file

\* ------------------------------------------------------- program constants
UnitBud == 2051   \* unit of the SUB binary output file
UnitRst == 2052   \* unit of the SUB restart file that is saved
UnitRest == 2053  \* unit of the SUB restart file that is read
UnitCbc == 53     \* unit of the cell-by-cell budget file
NIds15 == 12      \* entries of dataset 15
NIds16 == 17      \* entries of one dataset 16 row
LastStep == 9999  \* last time step of the default dataset 16 row
DefaultNn == 20
DefaultAc2 == 2   \* 0.2, floats are kept in tenths
DefaultItmin == 5
NHeader == 11     \* tokens of dataset 1 that load reads (t[0] .. t[10])
SubUnitNumber == 32  \* default unit_number of ModflowSub

\* --------------------------------------------------------------- variables
VARIABLES
    model,         \* the host model: nper, nlay, verbose, the DIS package
    packagelist,   \* the host model's package list (add_package)
    pop_key_list,  \* the host model's external-unit bookkeeping (add_pop_key_list)
    ext_unit_dict, \* the ext_unit_dict the caller handed to the last load
    sub,           \* the ModflowSub instance, or None
    subfile,       \* the text of the SUB file, a sequence of records
    upw,           \* the ModflowUpw instance, or None
    upwfile,       \* the text of the UPW file
    call,          \* the last call and its arguments
    result,        \* how the last call ended and what it read or wrote
    trip,          \* the calls made so far and how each ended, oldest first
    prevfile       \* the text of the file before the last call

vars == <<model, packagelist, pop_key_list, ext_unit_dict, sub, subfile,
          upw, upwfile, call, result, trip, prevfile>>

\* ------------------------------------------------------------ small helpers
Range(s) == {s[i] : i \in 1..Len(s)}

Min(a, b) == IF a < b THEN a ELSE b

RECURSIVE Flatten(_)
Flatten(ss) == IF ss = <<>> THEN <<>> ELSE Head(ss) \o Flatten(Tail(ss))

\* An optional value: None (the Python None), Unset (the attribute was never
\* assigned) or a value.
None == [tag |-> "None", v |-> <<>>]
Unset == [tag |-> "Unset", v |-> <<>>]
Some(x) == [tag |-> "val", v |-> x]
IsVal(o) == o.tag = "val"

\* ------------------------------------------------------------------ tokens
\* str.format of one value: an int, a float (in tenths) or a comment word.
IntTok(n) == <<[k |-> "int", v |-> n]>>
FloatTok(x) == <<[k |-> "float", v |-> x]>>
Comment(n) == <<[k |-> "#", v |-> n]>>

\* int(token): a token that is one int lexeme; anything else (a float
\* literal, two values run together with a "." inside, a word) raises.
IntOk(tok) == Len(tok) = 1 /\ tok[1].k = "int"
IntOf(tok) == tok[1].v

\* float(token): an int or float literal.
FloatOk(tok) == Len(tok) = 1 /\ tok[1].k \in {"int", "float"}
FloatOf(tok) == IF tok[1].k = "int" THEN 10 * tok[1].v ELSE tok[1].v

\* Records of a text: a line of tokens, or one array block of util_2d.
Line(toks) == [kind |-> "line", toks |-> toks, name |-> "", val |-> 0]
ArrayRec(name, val) == [kind |-> "array", toks |-> <<>>, name |-> name, val |-> val]

IsCommentLine(r) ==
    r.kind = "line" /\ r.toks # <<>> /\ r.toks[1][1].k = "#"

\* ------------------------------------------------------- array collaborators
\* A constructor argument for an array field: a scalar (broadcast by
\* util_2d / util_3d over the leading dimension) or one value per index.
Scalar(x) == [form |-> "scalar", s |-> x, l |-> <<>>]
List(xs) == [form |-> "list", s |-> 0, l |-> xs]

\* util_2d(model, (n,), ...) and util_3d(model, (n, nrow, ncol), ...): an
\* array of n entries (one abstract value per 2-D layer).
UtilArray(n, a) == [i \in 1..n |-> IF a.form = "scalar" THEN a.s ELSE a.l[i]]

\* A numpy array argument: None, a 1-D array ("vec", v = <<the row>>) or a
\* 2-D array ("mat", v = its rows).
NdNone == [tag |-> "None", v |-> <<>>]
NdUnset == [tag |-> "Unset", v |-> <<>>]
Vec(row) == [tag |-> "vec", v |-> <<row>>]
Mat(rows) == [tag |-> "mat", v |-> rows]

\* ------------------------------------------------------ ModflowSub.__init__
NoDelayFields == <<"hc", "sfe", "sfv", "com">>            \* datasets 5 to 8
DelayFields == <<"dstart", "dhc", "dcom", "dz", "nz">>    \* datasets 10 to 14
NoDelayAttrs == {"ln"} \cup Range(NoDelayFields)
DelayAttrs == {"ldn", "rnb"} \cup Range(DelayFields)
ArrayAttrs == NoDelayAttrs \cup DelayAttrs

\* Variant of the default row: the last period taken as nper.
DefaultIds16_PastLastPeriod(nper) ==
    [i \in 1..NIds16 |-> CASE i = 1 -> 0
                           [] i = 2 -> nper
                           [] i = 3 -> 0
                           [] i = 4 -> LastStep
                           [] OTHER -> 1]

\* np.ones((1, 17)) with the first four columns set: every period, every
\* time step, print and save everything.
DefaultIds16(nper) ==
    [i \in 1..NIds16 |-> CASE i = 1 -> 0
                           [] i = 2 -> nper - 1
                           [] i = 3 -> 0
                           [] i = 4 -> LastStep
                           [] OTHER -> 1]

\* Variant of the unit loop: range(0, 12, 2), the format entries.
SetOutputUnit_FormatEntries(ids15) ==
    [i \in 1..Len(ids15) |->
        IF i <= NIds15 /\ i % 2 = 1 THEN UnitBud ELSE ids15[i]]

\* for i in range(1, 12, 2): ids15[i] = 2051
SetOutputUnit(ids15) ==
    [i \in 1..Len(ids15) |->
        IF i <= NIds15 /\ i % 2 = 0 THEN UnitBud ELSE ids15[i]]

\* The files the package registers with Package.__init__.
SubUnits(a, unit_number) ==
    <<[name |-> "SUB", unit |-> unit_number]>>
    \o (IF a.isuboc > 0 THEN <<[name |-> "DATA(BINARY)", unit |-> UnitBud]>> ELSE <<>>)
    \o (IF a.idsave > 0 THEN <<[name |-> "DATA(BINARY)", unit |-> UnitRst]>> ELSE <<>>)

\* The no-delay and delay bed attributes: set only under a positive count;
\* com and dcom are not even initialised to None.
SubArrays(a) ==
    [f \in ArrayAttrs |->
        IF f \in NoDelayAttrs
        THEN IF a.nndb > 0 THEN Some(UtilArray(a.nndb, a.arr[f]))
             ELSE IF f = "com" THEN Unset ELSE None
        ELSE IF a.ndb > 0 THEN Some(UtilArray(a.ndb, a.arr[f]))
             ELSE IF f = "dcom" THEN Unset ELSE None]

\* The output data of the constructor: [err, isuboc, ids15, ids16].
SubOutputData(a, nper) ==
    IF a.isuboc > 0
    THEN LET i15 == SetOutputUnit(IF a.ids15.tag = "None"
                                  THEN [i \in 1..NIds15 |-> 0]
                                  ELSE a.ids15.v)
             i16 == IF a.ids16.tag = "None"
                    THEN Mat(<<DefaultIds16(nper)>>)
                    ELSE a.ids16
         IN  [err |-> IF i16.tag = "vec" THEN "NameError" ELSE "",
              isuboc |-> IF a.ids16.tag = "None" THEN 1 ELSE a.isuboc,
              ids15 |-> Some(i15),
              ids16 |-> i16]
    ELSE [err |-> "", isuboc |-> a.isuboc, ids15 |-> Unset, ids16 |-> NdUnset]

\* ModflowSub(model, ...): [err, obj].  The package is added to the model
\* (add_package, the last statement) only when err = "".
ModflowSub(m, a) ==
    LET o == SubOutputData(a, m.nper)
    IN  [err |-> o.err,
         obj |-> [units |-> SubUnits(a, a.unit_number),
                  isubcb |-> a.isubcb, isuboc |-> o.isuboc,
                  idsave |-> a.idsave, idrest |-> a.idrest,
                  nndb |-> a.nndb, ndb |-> a.ndb, nmz |-> a.nmz, nn |-> a.nn,
                  ac1 |-> a.ac1, ac2 |-> a.ac2, itmin |-> a.itmin,
                  arr |-> SubArrays(a),
                  dp |-> a.dp,
                  ids15 |-> o.ids15, ids16 |-> o.ids16]]

\* ---------------------------------------------------- ModflowSub.write_file
\* A section of write_file: the records it emits and the exception that
\* ends it ("" when it runs to its end).
Section(err, out) == [err |-> err, out |-> out]

\* The sections in program order, up to and including the first that raises.
RECURSIVE RunSections(_)
RunSections(secs) ==
    IF secs = <<>> THEN [err |-> "", out |-> <<>>, done |-> 0]
    ELSE IF Head(secs).err # "" THEN [err |-> Head(secs).err, out |-> Head(secs).out, done |-> 0]
    ELSE LET r == RunSections(Tail(secs))
         IN  [err |-> r.err, out |-> Head(secs).out \o r.out, done |-> r.done + 1]

\* Dataset 1 as written: two format calls, the first ending without a blank
\* or a newline, so that nn and ac1 run together in one token.
SubHeaderTokens(o) ==
    <<IntTok(o.isubcb), IntTok(o.isuboc), IntTok(o.nndb), IntTok(o.ndb),
      IntTok(o.nmz), IntTok(o.nn) \o FloatTok(o.ac1), FloatTok(o.ac2),
      IntTok(o.itmin), IntTok(o.idsave), IntTok(o.idrest)>>

\* The heading and dataset 1.
WriteSubHeader(o) ==
    Section("", <<Line(<<Comment(0)>>), Line(SubHeaderTokens(o))>>)

\* One layer-index value at the format boundary: zero-based in the model,
\* one-based in the text.
WriteIndex(tt) == IntTok(tt + 1)

\* Datasets 2 and 3: t = self.ln.array, with no test of the count.
WriteIndexLine(a) ==
    IF IsVal(a)
    THEN Section("", <<Line([i \in 1..Len(a.v) |-> WriteIndex(a.v[i])])>>)
    ELSE Section("AttributeError", <<>>)

\* get_file_entry() of layer k of each named array, for k in range(n).
WriteArrays(o, n, fields) ==
    Flatten([k \in 1..n |->
        [j \in 1..Len(fields) |-> ArrayRec(fields[j], o.arr[fields[j]].v[k])]])

\* Dataset 9: nmz rows of self.dp[k, 0..2], each with its comment.
DpRowOk(dp, k) == dp.tag = "mat" /\ k <= Len(dp.v)
DpRows(o) == IF \E k \in 1..o.nmz : ~DpRowOk(o.dp, k)
             THEN (CHOOSE k \in 1..o.nmz :
                       ~DpRowOk(o.dp, k) /\ \A j \in 1..(k - 1) : DpRowOk(o.dp, j)) - 1
             ELSE o.nmz
WriteDp(o) ==
    IF o.ndb > 0
    THEN Section(IF DpRows(o) = o.nmz THEN ""
                 ELSE IF o.dp.tag = "None" THEN "TypeError" ELSE "IndexError",
                 [k \in 1..DpRows(o) |->
                     Line(<<FloatTok(o.dp.v[k][1]), FloatTok(o.dp.v[k][2]),
                            FloatTok(o.dp.v[k][3]), Comment(k)>>)])
    ELSE Section("", <<>>)

\* t = self.ids16[k, :]; t[0:4] += 1  -- t is a view of the row.
Ids16Boundary(row) == [i \in 1..Len(row) |-> IF i <= 4 THEN row[i] + 1 ELSE row[i]]

\* Datasets 15 and 16.
Ids16Rows(o) == IF o.ids16.tag = "mat" THEN Min(o.isuboc, Len(o.ids16.v)) ELSE 0
WriteOutput(o) ==
    IF o.isuboc > 0
    THEN IF ~IsVal(o.ids15) THEN Section("AttributeError", <<>>)
         ELSE Section(IF Ids16Rows(o) = o.isuboc THEN ""
                      ELSE IF o.ids16.tag = "mat" THEN "IndexError" ELSE "AttributeError",
                 <<Line([i \in 1..Len(o.ids15.v) |-> IntTok(o.ids15.v[i])]
                        \o <<Comment(15)>>)>>
                 \o [k \in 1..Ids16Rows(o) |->
                        Line([i \in 1..Len(o.ids16.v[k]) |->
                                 IntTok(Ids16Boundary(o.ids16.v[k])[i])]
                             \o <<Comment(k)>>)])
    ELSE Section("", <<>>)

\* Variant of write_file: the material zones ahead of the no-delay beds.
SubSections_ZonesFirst(o) ==
    <<WriteSubHeader(o),
      WriteIndexLine(o.arr["ln"]),
      WriteIndexLine(o.arr["ldn"]),
      Section("", IF o.ndb > 0 THEN WriteArrays(o, o.ndb, <<"rnb">>) ELSE <<>>),
      WriteDp(o),
      Section("", IF o.nndb > 0 THEN WriteArrays(o, o.nndb, NoDelayFields) ELSE <<>>),
      Section("", IF o.ndb > 0 THEN WriteArrays(o, o.ndb, DelayFields) ELSE <<>>),
      WriteOutput(o)>>

SubSections(o) ==
    <<WriteSubHeader(o),
      WriteIndexLine(o.arr["ln"]),
      WriteIndexLine(o.arr["ldn"]),
      Section("", IF o.ndb > 0 THEN WriteArrays(o, o.ndb, <<"rnb">>) ELSE <<>>),
      Section("", IF o.nndb > 0 THEN WriteArrays(o, o.nndb, NoDelayFields) ELSE <<>>),
      WriteDp(o),
      Section("", IF o.ndb > 0 THEN WriteArrays(o, o.ndb, DelayFields) ELSE <<>>),
      WriteOutput(o)>>

\* The model after write_file: the rows of ids16 that were written keep the
\* increment of their first four columns.
SubAfterWrite(o, r) ==
    IF r.done >= 7 /\ o.isuboc > 0 /\ IsVal(o.ids15) /\ o.ids16.tag = "mat"
    THEN [o EXCEPT !.ids16 =
             Mat([k \in 1..Len(o.ids16.v) |->
                     IF k <= Ids16Rows(o) THEN Ids16Boundary(o.ids16.v[k])
                     ELSE o.ids16.v[k]])]
    ELSE o

\* write_file: [err, text, obj]; closed tells whether f.close() was reached.
SubWriteFile(o) ==
    LET r == RunSections(SubSections(o))
    IN  [err |-> r.err, text |-> r.out, obj |-> SubAfterWrite(o, r),
         closed |-> r.err = "",
         nindex |-> IF r.done >= 3 THEN 2 ELSE IF r.done = 2 THEN 1 ELSE 0,
         ndprows |-> IF r.done >= 5 THEN Len(WriteDp(o).out) ELSE 0]

\* ------------------------------------------------------------ stream readers
\* f.readline() in the "while True" loop of load: the first record that does
\* not begin with "#".  At the end of the text readline gives "" and
\* line[0] raises.
SkipComments(text) ==
    IF \E i \in 1..Len(text) : ~IsCommentLine(text[i])
    THEN [err |-> "",
          pos |-> CHOOSE i \in 1..Len(text) :
                      ~IsCommentLine(text[i]) /\ \A j \in 1..(i - 1) : IsCommentLine(text[j])]
    ELSE [err |-> "IndexError", pos |-> Len(text) + 1]

\* The tokens of a record read as a line: an array block read as a line
\* shows its control record, which holds no number to convert.
LineTokens(r) == IF r.kind = "line" THEN r.toks ELSE <<Comment(0)>>

\* The header line the loop stopped at, split.
HeaderTokens(text, c) == IF c.err = "" THEN LineTokens(text[c.pos]) ELSE <<>>

\* read1d(f, a): lines are read until they hold n values; the first n are
\* converted to int.  The end of the text is a failed read.
RECURSIVE Read1dLines(_, _, _, _)
Read1dLines(text, pos, n, acc) ==
    IF pos > Len(text) THEN [err |-> "ReadError", toks |-> acc, pos |-> pos]
    ELSE IF Len(acc \o LineTokens(text[pos])) >= n
    THEN [err |-> "", toks |-> SubSeq(acc \o LineTokens(text[pos]), 1, n), pos |-> pos + 1]
    ELSE Read1dLines(text, pos + 1, n, acc \o LineTokens(text[pos]))

Read1dValues(r, n) ==
    IF r.err # "" THEN [err |-> r.err, vals |-> <<>>, pos |-> r.pos]
    ELSE IF \E i \in 1..n : ~IntOk(r.toks[i])
    THEN [err |-> "ValueError", vals |-> <<>>, pos |-> r.pos]
    ELSE [err |-> "", vals |-> [i \in 1..n |-> IntOf(r.toks[i])], pos |-> r.pos]

read1d(text, pos, n) == Read1dValues(Read1dLines(text, pos, n, <<>>), n)

\* util_2d.load(f, model, shape, dtype, name, ext_unit_dict): consumes one
\* array block; any other record, or none, is a failed read.
util_2d_load(text, pos) ==
    IF pos > Len(text) \/ text[pos].kind # "array"
    THEN [err |-> "LoadError", vals |-> <<>>, pos |-> pos]
    ELSE [err |-> "", vals |-> <<text[pos].val>>, pos |-> pos + 1]

\* line = f.readline(); t = line.strip().split(); float(t[0]), float(t[1]),
\* float(t[2]): one row of dataset 9.
DpRowValues(t, pos) ==
    IF \E i \in 1..Min(3, Len(t)) : ~FloatOk(t[i])
    THEN [err |-> "ValueError", vals |-> <<>>, pos |-> pos + 1]
    ELSE IF Len(t) < 3 THEN [err |-> "IndexError", vals |-> <<>>, pos |-> pos + 1]
    ELSE [err |-> "", vals |-> [i \in 1..3 |-> FloatOf(t[i])], pos |-> pos + 1]

ReadDpRow(text, pos) ==
    DpRowValues(IF pos > Len(text) THEN <<>> ELSE LineTokens(text[pos]), pos)

\* line = f.readline(); np.array(t[0:nlay], dtype): at most nlay values,
\* fewer when the line is short.
FlagValues(t, n, isfloat, pos) ==
    IF \E i \in 1..n : ~(IF isfloat THEN FloatOk(t[i]) ELSE IntOk(t[i]))
    THEN [err |-> "ValueError", vals |-> <<>>, pos |-> pos + 1]
    ELSE [err |-> "",
          vals |-> [i \in 1..n |-> IF isfloat THEN FloatOf(t[i]) ELSE IntOf(t[i])],
          pos |-> pos + 1]

ReadFlags(text, pos, nlay, isfloat) ==
    IF pos > Len(text) THEN FlagValues(<<>>, 0, isfloat, pos)
    ELSE FlagValues(LineTokens(text[pos]), Min(nlay, Len(LineTokens(text[pos]))),
                    isfloat, pos)

\* One read of load: what is read (op), the field it is for (name), the
\* bed, zone, row or layer (k, 0 when there is one only) and the number of
\* values (n).  A "raise" stands for a statement that raises name.
Item(op, name, k, n) == [op |-> op, name |-> name, k |-> k, n |-> n]
Raise(err) == Item("raise", err, 0, 0)

ReadItem(text, pos, it) ==
    CASE it.op = "raise" -> [err |-> it.name, vals |-> <<>>, pos |-> pos]
      [] it.op = "read1d" -> read1d(text, pos, it.n)
      [] it.op = "array" -> util_2d_load(text, pos)
      [] it.op = "dprow" -> ReadDpRow(text, pos)
      [] it.op = "flags" -> ReadFlags(text, pos, it.n, FALSE)
      [] it.op = "fflags" -> ReadFlags(text, pos, it.n, TRUE)

\* The reads of load in program order, each from where the one before it
\* ended, up to the first that raises: [err, got, pos], got the values of
\* the reads that were made.
RECURSIVE RunPlan(_, _, _)
RECURSIVE RunPlanFrom(_, _, _)
RunPlanFrom(text, plan, a) ==
    IF a.err # "" THEN [err |-> a.err, got |-> <<>>, pos |-> a.pos]
    ELSE LET r == RunPlan(text, a.pos, Tail(plan))
         IN  [err |-> r.err, got |-> <<a.vals>> \o r.got, pos |-> r.pos]
RunPlan(text, pos, plan) ==
    IF plan = <<>> THEN [err |-> "", got |-> <<>>, pos |-> pos]
    ELSE RunPlanFrom(text, plan, ReadItem(text, pos, Head(plan)))

\* The reads made among those planned, and their values.
Made(plan, g, name, k) ==
    \E i \in 1..Len(g.got) : plan[i].name = name /\ plan[i].k = k
Got(plan, g, name, k) ==
    g.got[CHOOSE i \in 1..Len(g.got) : plan[i].name = name /\ plan[i].k = k]
MadeOps(plan, g, ops) == Cardinality({i \in 1..Len(g.got) : plan[i].op \in ops})

\* The caller's ext_unit_dict: None (the default) or a dict, by its keys.
NoDict == [tag |-> "None", keys |-> {}]
Dict(keys) == [tag |-> "val", keys |-> keys]

\* model.add_pop_key_list(key)
add_pop_key_list(list, keys) == list \cup keys

\* Variant of the constructor: the package added to the model first.
add_package_first(list, err, name) == Append(list, name)

\* self.parent.add_package(self), the last statement of the constructor: it
\* is reached when nothing before it raised.
add_package(list, err, name) == IF err = "" THEN Append(list, name) ELSE list

\* --------------------------------------------------------- ModflowSub.load
NoneArg == [form |-> "none", s |-> 0, l |-> <<>>]

\* Dataset 1: t[0..5] int, t[6..7] float, t[8..10] int, converted left to right.
SubHeaderFieldOk(toks, i) ==
    i <= Len(toks) /\ (IF i \in {7, 8} THEN FloatOk(toks[i]) ELSE IntOk(toks[i]))

ParseSubHeader(toks) ==
    IF \A i \in 1..NHeader : SubHeaderFieldOk(toks, i)
    THEN [err |-> "",
          isubcb |-> IntOf(toks[1]), isuboc |-> IntOf(toks[2]), nndb |-> IntOf(toks[3]),
          ndb |-> IntOf(toks[4]), nmz |-> IntOf(toks[5]), nn |-> IntOf(toks[6]),
          ac1 |-> FloatOf(toks[7]), ac2 |-> FloatOf(toks[8]), itmin |-> IntOf(toks[9]),
          idsave |-> IntOf(toks[10]), idrest |-> IntOf(toks[11])]
    ELSE [err |-> IF \E i \in 1..Len(toks) : i <= NHeader /\ ~SubHeaderFieldOk(toks, i)
                  THEN "ValueError" ELSE "IndexError",
          isubcb |-> 0, isuboc |-> 0, nndb |-> 0, ndb |-> 0, nmz |-> 0, nn |-> 0,
          ac1 |-> 0, ac2 |-> 0, itmin |-> 0, idsave |-> 0, idrest |-> 0]

\* The unit flags of dataset 1 after "if isubcb > 0: isubcb = 53" and the
\* like: [err, isubcb, idsave, idrest, eud, pops].  pops are the units
\* handed to add_pop_key_list: none; only idrest touches a collaborator,
\* and that is the caller's ext_unit_dict.
SubRemapUnits(h, eud) ==
    [err |-> IF h.idrest > 0
             THEN IF eud.tag = "None" THEN "AttributeError"
                  ELSE IF h.idrest \notin eud.keys THEN "KeyError" ELSE ""
             ELSE "",
     isubcb |-> IF h.isubcb > 0 THEN UnitCbc ELSE h.isubcb,
     idsave |-> IF h.idsave > 0 THEN UnitRst ELSE h.idsave,
     idrest |-> IF h.idrest > 0 THEN UnitRest ELSE h.idrest,
     eud |-> IF h.idrest > 0 /\ eud.tag = "val" /\ h.idrest \in eud.keys
             THEN Dict((eud.keys \ {h.idrest}) \cup {UnitRest}) ELSE eud,
     pops |-> {}]

\* One layer-index value at the format boundary, read.
ReadIndex(v) == v - 1

\* t = read1d(f, t); t[0:4] -= 1
Ids16Internal(row) == [i \in 1..Len(row) |-> IF i <= 4 THEN row[i] - 1 ELSE row[i]]

\* The unit entries of dataset 15, each handed to add_pop_key_list.
Ids15Units(ids15) == {ids15[i] : i \in {j \in 1..NIds15 : j % 2 = 0}}

\* The reads of datasets 15 and 16; the message of dataset 15 names kk,
\* which is bound only in the bed loops.
SubOutputPlan(h, m) ==
    IF h.isuboc > 0
    THEN (IF m.verbose /\ h.nndb <= 0 /\ h.ndb <= 0
          THEN <<Raise("UnboundLocalError")>> ELSE <<>>)
         \o <<Item("read1d", "ids15", 0, NIds15)>>
         \o [k \in 1..h.isuboc |-> Item("read1d", "ids16", k, NIds16)]
    ELSE <<>>

\* The reads of load after dataset 1, in program order.
SubLoadPlan(err, h, m) ==
    IF err # "" THEN <<Raise(err)>>
    ELSE (IF h.nndb > 0 THEN <<Item("read1d", "ln", 0, h.nndb)>> ELSE <<>>)
         \o (IF h.ndb > 0 THEN <<Item("read1d", "ldn", 0, h.ndb)>> ELSE <<>>)
         \o [k \in 1..h.ndb |-> Item("array", "rnb", k, 1)]
         \o Flatten([k \in 1..h.nndb |->
                [j \in 1..Len(NoDelayFields) |-> Item("array", NoDelayFields[j], k, 1)]])
         \o (IF h.ndb > 0 THEN [k \in 1..h.nmz |-> Item("dprow", "dp", k, 3)] ELSE <<>>)
         \o Flatten([k \in 1..h.ndb |->
                [j \in 1..Len(DelayFields) |-> Item("array", DelayFields[j], k, 1)]])
         \o SubOutputPlan(h, m)

\* The constructor arguments load builds from what it read.
SubLoadArrays(h, plan, g) ==
    [f \in ArrayAttrs |->
        IF g.err # "" THEN NoneArg
        ELSE IF f = "ln" THEN
             IF h.nndb > 0
             THEN List([i \in 1..h.nndb |-> ReadIndex(Got(plan, g, "ln", 0)[i])])
             ELSE NoneArg
        ELSE IF f = "ldn" THEN
             IF h.ndb > 0
             THEN List([i \in 1..h.ndb |-> ReadIndex(Got(plan, g, "ldn", 0)[i])])
             ELSE NoneArg
        ELSE IF f \in NoDelayAttrs THEN
             IF h.nndb > 0 THEN List([k \in 1..h.nndb |-> Got(plan, g, f, k)[1]])
             ELSE NoneArg
        ELSE IF h.ndb > 0 THEN List([k \in 1..h.ndb |-> Got(plan, g, f, k)[1]])
             ELSE NoneArg]

SubLoadArgs(h, u, plan, g) ==
    [isubcb |-> u.isubcb, isuboc |-> h.isuboc, idsave |-> u.idsave,
     idrest |-> u.idrest, nndb |-> h.nndb, ndb |-> h.ndb, nmz |-> h.nmz,
     nn |-> h.nn, ac1 |-> h.ac1, ac2 |-> h.ac2, itmin |-> h.itmin,
     arr |-> SubLoadArrays(h, plan, g),
     dp |-> IF g.err = "" /\ h.ndb > 0
            THEN Mat([k \in 1..h.nmz |-> Got(plan, g, "dp", k)]) ELSE NdNone,
     ids15 |-> IF Made(plan, g, "ids15", 0)
               THEN Some(SetOutputUnit(Got(plan, g, "ids15", 0))) ELSE None,
     ids16 |-> IF g.err = "" /\ Made(plan, g, "ids16", h.isuboc)
               THEN Mat([k \in 1..h.isuboc |-> Ids16Internal(Got(plan, g, "ids16", k))])
               ELSE NdNone,
     unit_number |-> SubUnitNumber]

\* What load has done when it comes to f.close(), or has raised.
SubLoadResult(h, u, eud, plan, g) ==
    [err |-> g.err,
     pos |-> g.pos,
     narrays |-> MadeOps(plan, g, {"array"}),
     ndprows |-> MadeOps(plan, g, {"dprow"}),
     nindex |-> Cardinality({i \in 1..Len(g.got) : plan[i].name \in {"ln", "ldn"}}),
     pops |-> u.pops \cup (IF Made(plan, g, "ids15", 0)
                           THEN Ids15Units(Got(plan, g, "ids15", 0)) ELSE {}),
     eud |-> eud,
     closed |-> g.err = "",
     args |-> SubLoadArgs(h, u, plan, g)]

SubLoadRun(text, pos, h, u, eud, plan) ==
    SubLoadResult(h, u, eud, plan, RunPlan(text, pos, plan))

SubLoadUnits(text, m, eud, c, h, u) ==
    SubLoadRun(text, c.pos + 1, h, u,
               IF c.err = "" /\ h.err = "" THEN u.eud ELSE eud,
               SubLoadPlan(IF c.err # "" THEN c.err ELSE IF h.err # "" THEN h.err ELSE u.err,
                           h, m))

SubLoadHeader(text, m, eud, c, h) ==
    SubLoadUnits(text, m, eud, c, h, SubRemapUnits(h, eud))

\* ModflowSub.load(f, model, ext_unit_dict) up to f.close().
SubLoadParse(text, m, eud) ==
    SubLoadHeader(text, m, eud, SkipComments(text),
                  ParseSubHeader(HeaderTokens(text, SkipComments(text))))

\* load: the parse, then ModflowSub(model, ...), which adds the package.
SubLoadMake(m, p) ==
    IF p.err # "" THEN [err |-> p.err, obj |-> None, parse |-> p]
    ELSE [err |-> ModflowSub(m, p.args).err,
          obj |-> IF ModflowSub(m, p.args).err = ""
                  THEN Some(ModflowSub(m, p.args).obj) ELSE None,
          parse |-> p]

SubLoad(text, m, eud) == SubLoadMake(m, SubLoadParse(text, m, eud))

\* ------------------------------------------------------------------ inputs
\* The unit flags (isubcb, idsave, idrest) a caller or a file gives.
UnitFlags == {<<0, 0, 0>>, <<5, 7, 0>>, <<5, 7, 8>>}

\* The first layer of a layer vector.
Shifts(nlay) == 0..Min(1, nlay - 1)

\* Layer vectors of length n over the layers 0..nlay-1 (zero-based).
LayerVector(n, nlay, shift) == [k \in 1..n |-> (k - 1 + shift) % nlay]

\* Dataset 15 and one dataset 16 row as a caller gives them (zero-based).
GivenIds15 == [i \in 1..NIds15 |-> IF i % 2 = 0 THEN 60 + i ELSE i]
GivenIds16(k) == [i \in 1..NIds16 |-> IF i <= 2 THEN k - 1 ELSE IF i <= 4 THEN i ELSE i % 2]
GivenDp(k) == <<k, 6 * k, 60 * k>>

\* The arguments of a direct constructor call: the documented defaults
\* ("default"), explicit per-bed lists and tables ("lists"), or the same
\* with ids16 as one flat row ("flat").
AllSubCtorArgs(m) ==
    {[isubcb |-> fl[1], isuboc |-> oc, idsave |-> fl[2], idrest |-> fl[3],
      nndb |-> nndb, ndb |-> ndb, nmz |-> nmz,
      nn |-> DefaultNn, ac1 |-> 0, ac2 |-> DefaultAc2, itmin |-> DefaultItmin,
      arr |-> [f \in ArrayAttrs |->
                 IF style = "default" THEN Scalar(IF f \in {"ln", "ldn"} THEN 0 ELSE 1)
                 ELSE IF f = "ln" THEN List(LayerVector(nndb, m.nlay, shift))
                 ELSE IF f = "ldn" THEN List(LayerVector(ndb, m.nlay, shift + 1))
                 ELSE IF f \in NoDelayAttrs THEN List([k \in 1..nndb |-> 10 * k])
                 ELSE List([k \in 1..ndb |-> 10 * k + 1])],
      dp |-> IF style = "default" THEN Vec(GivenDp(1))
             ELSE Mat([k \in 1..nmz |-> GivenDp(k)]),
      ids15 |-> IF style = "default" THEN None ELSE Some(GivenIds15),
      ids16 |-> IF style = "default" THEN NdNone
                ELSE IF style = "flat" THEN Vec(GivenIds16(1))
                ELSE Mat([k \in 1..oc |-> GivenIds16(k)]),
      unit_number |-> SubUnitNumber] :
        fl \in UnitFlags, oc \in 0..MaxOc, nndb \in 0..MaxBeds, ndb \in 0..MaxBeds,
        nmz \in 0..MaxZones, shift \in Shifts(m.nlay),
        style \in {"default", "lists", "flat"}}

\* The flat row is tried on the models with one bed of each kind.
SubCtorArgs(m) ==
    {a \in AllSubCtorArgs(m) : a.ids16.tag = "vec" => a.nndb = 1 /\ a.ndb = 1 /\ a.nmz = 1}

\* A SUB file in the grammar load reads, for the header values given; with
\* cut = "nooutput" the text ends after the last array record.
SubFileText(fl, oc, nndb, ndb, nmz, nlay, shift, cut) ==
    <<Line(<<Comment(0)>>),
      Line(<<IntTok(fl[1]), IntTok(oc), IntTok(nndb), IntTok(ndb), IntTok(nmz),
             IntTok(DefaultNn), FloatTok(0), FloatTok(DefaultAc2), IntTok(DefaultItmin),
             IntTok(fl[2]), IntTok(fl[3])>>)>>
    \o (IF nndb > 0
        THEN <<Line([k \in 1..nndb |-> IntTok(LayerVector(nndb, nlay, shift)[k] + 1)])>>
        ELSE <<>>)
    \o (IF ndb > 0
        THEN <<Line([k \in 1..ndb |-> IntTok(LayerVector(ndb, nlay, shift + 1)[k] + 1)])>>
        ELSE <<>>)
    \o [k \in 1..ndb |-> ArrayRec("rnb", 10 * k + 1)]
    \o Flatten([k \in 1..nndb |->
           [j \in 1..Len(NoDelayFields) |-> ArrayRec(NoDelayFields[j], 10 * k)]])
    \o (IF ndb > 0
        THEN [k \in 1..nmz |->
                 Line(<<FloatTok(GivenDp(k)[1]), FloatTok(GivenDp(k)[2]),
                        FloatTok(GivenDp(k)[3]), Comment(k)>>)]
        ELSE <<>>)
    \o Flatten([k \in 1..ndb |->
           [j \in 1..Len(DelayFields) |-> ArrayRec(DelayFields[j], 10 * k + 1)]])
    \o (IF oc > 0 /\ cut = "full"
        THEN <<Line([i \in 1..NIds15 |-> IntTok(GivenIds15[i])] \o <<Comment(15)>>)>>
             \o [k \in 1..oc |->
                    Line([i \in 1..NIds16 |-> IntTok(Ids16Boundary(GivenIds16(k))[i])]
                         \o <<Comment(k)>>)]
        ELSE <<>>)

\* Texts that do not follow the grammar: a complete file cut after each of
\* its records, with a header of too few tokens, with a header token that
\* is no number of its field's type, and with a short material-zone row.
SubSampleFile(m) == SubFileText(<<5, 7, 0>>, 1, 1, 1, 1, m.nlay, 0, "full")
ShortHeader(toks, n) == Line(SubSeq(toks, 1, n))
BadHeader(toks, i) == Line([j \in 1..Len(toks) |-> IF j = i THEN Comment(j) ELSE toks[j]])
BadIntHeader(toks, i) == Line([j \in 1..Len(toks) |-> IF j = i THEN FloatTok(15) ELSE toks[j]])
SubBrokenFiles(m) ==
    LET F == SubSampleFile(m)
    IN  {SubSeq(F, 1, n) : n \in 0..(Len(F) - 1)}
        \cup {[F EXCEPT ![2] = ShortHeader(F[2].toks, n)] : n \in {0, 5, NHeader - 1}}
        \cup {[F EXCEPT ![2] = BadHeader(F[2].toks, i)] : i \in {1, 7, NHeader}}
        \cup {[F EXCEPT ![2] = BadIntHeader(F[2].toks, 3)]}
        \cup {[i \in 1..Len(F) |->
                  IF F[i].kind = "line" /\ Len(F[i].toks) = 4 /\ i > 2
                  THEN Line(SubSeq(F[i].toks, 1, 2)) ELSE F[i]]}

WellFormedSubFiles(m) ==
    {SubFileText(fl, oc, nndb, ndb, nmz, m.nlay, shift, cut) :
        fl \in UnitFlags, oc \in 0..MaxOc, nndb \in 0..MaxBeds, ndb \in 0..MaxBeds,
        nmz \in 0..MaxZones, shift \in Shifts(m.nlay), cut \in {"full", "nooutput"}}

SubFiles(m) == WellFormedSubFiles(m) \cup SubBrokenFiles(m)

\* The ext_unit_dict a caller hands to load: the default None, or the dict
\* of a name file.  load reads it only for a header with idrest > 0, so
\* the default is tried on the files that have one.
ExtUnitDicts == {NoDict, Dict({8, 40})}
ExtUnitDictsFor(text) ==
    LET t == HeaderTokens(text, SkipComments(text))
    IN  IF Len(t) >= NHeader /\ t[NHeader] # IntTok(0)
        THEN ExtUnitDicts ELSE {Dict({8, 40})}

\* ------------------------------------------------------ ModflowUpw.__init__
UpwArrays == <<"hk", "hani", "vka", "ss", "sy", "vkcb">>

RECURSIVE Sum(_)
Sum(xs) == IF xs = <<>> THEN 0 ELSE Head(xs) + Sum(Tail(xs))

\* util_2d(model, (nlay,), np.int, chani): the float (in tenths) cut to an int.
ToInt(x) == IF x >= 0 THEN x \div 10 ELSE -((-x) \div 10)

\* ModflowUpw(model, ...): the per-layer flags are int arrays of nlay
\* entries (chani too), the six grids have nlay layers, npupw is 0.
ModflowUpw(m, a) ==
    [iupwcb |-> a.iupwcb, hdry |-> a.hdry, npupw |-> 0, iphdry |-> a.iphdry,
     noparcheck |-> a.noparcheck,
     laytyp |-> UtilArray(m.nlay, a.laytyp),
     layavg |-> UtilArray(m.nlay, a.layavg),
     chani |-> [k \in 1..m.nlay |-> ToInt(UtilArray(m.nlay, a.chani)[k])],
     layvka |-> UtilArray(m.nlay, a.layvka),
     laywet |-> UtilArray(m.nlay, a.laywet),
     arr |-> [f \in Range(UpwArrays) |-> UtilArray(m.nlay, a.arr[f])]]

\* ---------------------------------------------------- ModflowUpw.write_file
\* Item 1 ('{0:10d}{1:10.3G}{2:10d}{3:10d}{4:s}', each value within its
\* ten columns) and the five flag lines (util_2d.string).
WriteUpwHeader(o) ==
    <<Line(<<Comment(0)>>),
      Line(<<IntTok(o.iupwcb), FloatTok(o.hdry), IntTok(o.npupw), IntTok(o.iphdry)>>
           \o (IF o.noparcheck THEN <<Comment(1)>> ELSE <<>>)),
      Line([k \in 1..Len(o.laytyp) |-> IntTok(o.laytyp[k])]),
      Line([k \in 1..Len(o.layavg) |-> IntTok(o.layavg[k])]),
      Line([k \in 1..Len(o.chani) |-> IntTok(o.chani[k])]),
      Line([k \in 1..Len(o.layvka) |-> IntTok(o.layvka[k])]),
      Line([k \in 1..Len(o.laywet) |-> IntTok(o.laywet[k])])>>

\* iwetdry = self.laywet.sum(); if iwetdry > 0: raise
WetError(laywet) == Sum(laywet) > 0

\* transient = not DIS.steady.all()
Transient(m) == \E i \in 1..Len(m.steady) : ~m.steady[i]

\* Variant of the layer loop: ss and sy written whatever the stress periods.
UpwLayerNames_AlwaysStorage(o, m, k) ==
    <<"hk">>
    \o (IF o.chani[k] < 1 THEN <<"hani">> ELSE <<>>)
    \o <<"vka">>
    \o <<"ss">> \o (IF o.laytyp[k] # 0 THEN <<"sy">> ELSE <<>>)
    \o (IF m.laycbd[k] > 0 THEN <<"vkcb">> ELSE <<>>)

\* The arrays written for layer k, in order; "laywet" stands for the
\* wetting branch, whose laywet[k].get_file_entry() raises on an int.
UpwLayerNames(o, m, k) ==
    <<"hk">>
    \o (IF o.chani[k] < 1 THEN <<"hani">> ELSE <<>>)
    \o <<"vka">>
    \o (IF Transient(m)
        THEN <<"ss">> \o (IF o.laytyp[k] # 0 THEN <<"sy">> ELSE <<>>)
        ELSE <<>>)
    \o (IF m.laycbd[k] > 0 THEN <<"vkcb">> ELSE <<>>)

UpwWetBranch(o, k) == o.laywet[k] # 0 /\ o.laytyp[k] # 0

WriteUpwLayer(o, m, k) ==
    Section(IF UpwWetBranch(o, k) THEN "AttributeError" ELSE "",
            [j \in 1..Len(UpwLayerNames(o, m, k)) |->
                ArrayRec(UpwLayerNames(o, m, k)[j], o.arr[UpwLayerNames(o, m, k)[j]][k])])

\* Variant of write_file: the wetting test after the layer loop.
UpwSections_LateWetTest(o, m) ==
    <<Section("", WriteUpwHeader(o))>>
    \o [k \in 1..m.nlay |-> WriteUpwLayer(o, m, k)]
    \o <<Section(IF WetError(o.laywet) THEN "Exception" ELSE "", <<>>)>>

UpwSections(o, m) ==
    <<Section("", WriteUpwHeader(o)),
      Section(IF WetError(o.laywet) THEN "Exception" ELSE "", <<>>)>>
    \o [k \in 1..m.nlay |-> WriteUpwLayer(o, m, k)]

\* write_file: [err, text, closed, layers]; layers[k] names the arrays
\* written for layer k, for the layers the loop came to.
UpwWriteFile(o, m) ==
    LET r == RunSections(UpwSections(o, m))
        reached == IF r.done < 2 THEN 0 ELSE Min(r.done - 1, m.nlay)
    IN  [err |-> r.err, text |-> r.out, closed |-> r.err = "",
         layers |-> [k \in 1..reached |-> UpwLayerNames(o, m, k)]]

\* --------------------------------------------------------- ModflowUpw.load
NUpwHeader == 4   \* tokens of item 1 that load converts (t[0] .. t[3])

UpwHeaderFieldOk(toks, i) ==
    i <= Len(toks) /\ (IF i = 2 THEN FloatOk(toks[i]) ELSE IntOk(toks[i]))

\* Item 1 and the remapping of a nonzero iupwcb: [err, ..., pops], pops the
\* units handed to add_pop_key_list.
ParseUpwHeader(toks) ==
    IF \A i \in 1..NUpwHeader : UpwHeaderFieldOk(toks, i)
    THEN [err |-> "",
          iupwcb |-> IF IntOf(toks[1]) # 0 THEN UnitCbc ELSE IntOf(toks[1]),
          hdry |-> FloatOf(toks[2]), npupw |-> IntOf(toks[3]), iphdry |-> IntOf(toks[4]),
          noparcheck |-> \E i \in NUpwHeader..Len(toks) : toks[i] = Comment(1),
          pops |-> IF IntOf(toks[1]) # 0 THEN {IntOf(toks[1])} ELSE {}]
    ELSE [err |-> IF \E i \in 1..Len(toks) : i <= NUpwHeader /\ ~UpwHeaderFieldOk(toks, i)
                  THEN "ValueError" ELSE "IndexError",
          iupwcb |-> 0, hdry |-> 0, npupw |-> 0, iphdry |-> 0, noparcheck |-> FALSE,
          pops |-> {}]

\* The five flag lines, in program order.
UpwFlagNames == <<"laytyp", "layavg", "chani", "layvka", "laywet">>
UpwFlagPlan(err, m) ==
    IF err # "" THEN <<Raise(err)>>
    ELSE [j \in 1..Len(UpwFlagNames) |->
             Item(IF UpwFlagNames[j] = "chani" THEN "fflags" ELSE "flags",
                  UpwFlagNames[j], 0, m.nlay)]

\* Variant of the layer loop of load: sy read by the type of the first layer.
UpwLayerPlan_FirstLayerType(chani, laytyp, m, k) ==
    <<Item("array", "hk", k, 1)>>
    \o (IF k > Len(chani) THEN <<Raise("IndexError")>>
        ELSE IF chani[k] < 10 THEN <<Item("array", "hani", k, 1)>> ELSE <<>>)
    \o <<Item("array", "vka", k, 1)>>
    \o (IF Transient(m)
        THEN <<Item("array", "ss", k, 1)>>
             \o (IF laytyp = <<>> THEN <<Raise("IndexError")>>
                 ELSE IF laytyp[1] # 0 THEN <<Item("array", "sy", k, 1)>> ELSE <<>>)
        ELSE <<>>)
    \o (IF m.laycbd[k] > 0 THEN <<Item("array", "vkcb", k, 1)>> ELSE <<>>)

\* The reads of the layer loop for layer k, in order; chani[k] or
\* laytyp[k] past the end of a short flag array raises.
UpwLayerPlan(chani, laytyp, m, k) ==
    <<Item("array", "hk", k, 1)>>
    \o (IF k > Len(chani) THEN <<Raise("IndexError")>>
        ELSE IF chani[k] < 10 THEN <<Item("array", "hani", k, 1)>> ELSE <<>>)
    \o <<Item("array", "vka", k, 1)>>
    \o (IF Transient(m)
        THEN <<Item("array", "ss", k, 1)>>
             \o (IF k > Len(laytyp) THEN <<Raise("IndexError")>>
                 ELSE IF laytyp[k] # 0 THEN <<Item("array", "sy", k, 1)>> ELSE <<>>)
        ELSE <<>>)
    \o (IF m.laycbd[k] > 0 THEN <<Item("array", "vkcb", k, 1)>> ELSE <<>>)

\* What follows the flag lines: the wetting test, the parameters (npupw > 0
\* names nplpf, which is not defined), the layer loop, and the constructor,
\* whose util_2d fails on a flag array that has not nlay entries.
UpwArrayPlan(err, h, fl, m) ==
    IF err # "" THEN <<Raise(err)>>
    ELSE IF WetError(fl[5]) THEN <<Raise("Exception")>>
    ELSE IF h.npupw > 0 THEN <<Raise("NameError")>>
    ELSE Flatten([k \in 1..m.nlay |-> UpwLayerPlan(fl[3], fl[1], m, k)])
         \o (IF \E j \in 1..Len(fl) : Len(fl[j]) # m.nlay
             THEN <<Raise("ShapeError")>> ELSE <<>>)

\* The names of the arrays read for each layer the loop came to.
UpwLayersRead(plan, g, m) ==
    [k \in 1..Cardinality({plan[i].k : i \in 1..Len(g.got)} \ {0}) |->
        [j \in 1..Cardinality({i \in 1..Len(g.got) : plan[i].k = k}) |->
            plan[CHOOSE i \in 1..Len(g.got) :
                    /\ plan[i].k = k
                    /\ Cardinality({x \in 1..i : plan[x].k = k}) = j].name]]

UpwLoadArgs(h, fl, plan, g, m) ==
    [iupwcb |-> h.iupwcb, hdry |-> h.hdry, iphdry |-> h.iphdry,
     noparcheck |-> h.noparcheck,
     laytyp |-> List(fl[1]), layavg |-> List(fl[2]), chani |-> List(fl[3]),
     layvka |-> List(fl[4]), laywet |-> List(fl[5]),
     arr |-> [f \in Range(UpwArrays) |->
                List([k \in 1..m.nlay |->
                        IF Made(plan, g, f, k) THEN Got(plan, g, f, k)[1] ELSE 0])]]

\* load: [err, obj, pops, layers].  The file is never closed.
UpwLoadResult(h, fl, plan, g, m) ==
    [err |-> g.err,
     pops |-> h.pops,
     layers |-> UpwLayersRead(plan, g, m),
     narrays |-> MadeOps(plan, g, {"array"}),
     closed |-> FALSE,
     obj |-> IF g.err # "" THEN None
             ELSE Some(ModflowUpw(m, UpwLoadArgs(h, fl, plan, g, m)))]

UpwLoadArrays(text, pos, h, fl, plan, m) ==
    UpwLoadResult(h, fl, plan, RunPlan(text, pos, plan), m)

UpwLoadFlags(text, h, fg, m) ==
    UpwLoadArrays(text, fg.pos, h, fg.got, UpwArrayPlan(fg.err, h, fg.got, m), m)

UpwLoadHeader(text, m, c, h) ==
    UpwLoadFlags(text, h,
                 RunPlan(text, c.pos + 1,
                         UpwFlagPlan(IF c.err # "" THEN c.err ELSE h.err, m)),
                 m)

\* ModflowUpw.load(f, model, ext_unit_dict)
UpwLoad(text, m) ==
    UpwLoadHeader(text, m, SkipComments(text),
                  ParseUpwHeader(HeaderTokens(text, SkipComments(text))))

\* A layer's flags as a caller or a file gives them: <<laytyp, chani (in
\* tenths), laywet>>.
LayerFlags == {<<0, 10, 0>>, <<1, 10, 0>>, <<0, 5, 0>>, <<1, 5, 0>>,
               <<1, 10, 1>>, <<1, 10, -1>>, <<0, 10, 1>>, <<0, 10, -1>>}

UpwCtorArgs(m) ==
    {[iupwcb |-> cb, hdry |-> -10, iphdry |-> 0, noparcheck |-> FALSE,
      laytyp |-> List([k \in 1..m.nlay |-> fl[k][1]]),
      layavg |-> Scalar(0),
      chani |-> List([k \in 1..m.nlay |-> fl[k][2]]),
      layvka |-> Scalar(0),
      laywet |-> List([k \in 1..m.nlay |-> fl[k][3]]),
      arr |-> [f \in Range(UpwArrays) |-> Scalar(1)]] :
        cb \in {0, UnitCbc}, fl \in [1..m.nlay -> LayerFlags]}

\* A UPW file in the grammar load reads, for the flags given and the host
\* model's DIS package.
UpwFileText(cb, fl, m) ==
    <<Line(<<Comment(0)>>),
      Line(<<IntTok(cb), FloatTok(-10), IntTok(0), IntTok(0)>>),
      Line([k \in 1..m.nlay |-> IntTok(fl[k][1])]),
      Line([k \in 1..m.nlay |-> IntTok(0)]),
      Line([k \in 1..m.nlay |-> FloatTok(fl[k][2])]),
      Line([k \in 1..m.nlay |-> IntTok(0)]),
      Line([k \in 1..m.nlay |-> IntTok(fl[k][3])])>>
    \o Flatten([k \in 1..m.nlay |->
          <<ArrayRec("hk", k)>>
          \o (IF fl[k][2] < 10 THEN <<ArrayRec("hani", k)>> ELSE <<>>)
          \o <<ArrayRec("vka", k)>>
          \o (IF Transient(m)
              THEN <<ArrayRec("ss", k)>>
                   \o (IF fl[k][1] # 0 THEN <<ArrayRec("sy", k)>> ELSE <<>>)
              ELSE <<>>)
          \o (IF m.laycbd[k] > 0 THEN <<ArrayRec("vkcb", k)>> ELSE <<>>)])

WellFormedUpwFiles(m) ==
    {UpwFileText(cb, fl, m) : cb \in {0, 9}, fl \in [1..m.nlay -> LayerFlags]}

\* Texts that do not follow the grammar, as for SUB.
UpwSampleFile(m) == UpwFileText(9, [k \in 1..m.nlay |-> <<1, 5, 0>>], m)
UpwBrokenFiles(m) ==
    LET F == UpwSampleFile(m)
    IN  {SubSeq(F, 1, n) : n \in 0..(Len(F) - 1)}
        \cup {[F EXCEPT ![2] = ShortHeader(F[2].toks, n)] : n \in {0, NUpwHeader - 1}}
        \cup {[F EXCEPT ![2] = BadHeader(F[2].toks, i)] : i \in {1, 2, NUpwHeader}}
        \cup {[F EXCEPT ![2] = BadIntHeader(F[2].toks, 3)]}

UpwFiles(m) == WellFormedUpwFiles(m) \cup UpwBrokenFiles(m)

\* ------------------------------------------------------------ the host model
\* self.parent / model: nrow_ncol_nlay_nper, verbose and the DIS package
\* (steady per stress period, laycbd per layer).
HostModels(lays, steadies) ==
    {[nper |-> Len(st), nlay |-> nlay, verbose |-> vb, steady |-> st,
      laycbd |-> [k \in 1..nlay |-> IF k = 1 THEN cbd ELSE 0]] :
        st \in steadies, nlay \in lays, vb \in BOOLEAN, cbd \in {0, 1}}

Outcome(op, err, closed, narrays, ndprows, nindex) ==
    [op |-> op, err |-> err, closed |-> closed,
     narrays |-> narrays, ndprows |-> ndprows, nindex |-> nindex, layers |-> <<>>]

Did(op, err) == [op |-> op, err |-> err]

NArrays(text) == Cardinality({i \in 1..Len(text) : text[i].kind = "array"})

InitCommon ==
    /\ packagelist = <<>>
    /\ pop_key_list = {}
    /\ ext_unit_dict = NoDict
    /\ sub = None
    /\ subfile = None
    /\ upw = None
    /\ upwfile = None
    /\ call = [op |-> "none"]
    /\ result = Outcome("none", "", TRUE, 0, 0, 0)
    /\ trip = <<>>
    /\ prevfile = None

\* ------------------------------------------------------------- SUB actions
\* A script is followed until an exception leaves one of its calls: the
\* actions that follow a call are enabled while result.err = "".
InitSub ==
    /\ model \in {m \in HostModels({MaxLay}, {[i \in 1..n |-> TRUE] : n \in 1..MaxPer}) :
                     /\ \A k \in 1..m.nlay : m.laycbd[k] = 0
                     /\ m.verbose => m.nper = MaxPer}
    /\ InitCommon

\* sub = ModflowSub(model, ...), called by the user.  The constructor
\* does not read model.verbose.
SubConstruct ==
    /\ trip = <<>>
    /\ ~model.verbose
    /\ \E a \in SubCtorArgs(model) :
         LET c == ModflowSub(model, a)
         IN  /\ sub' = IF c.err = "" THEN Some(c.obj) ELSE None
             /\ packagelist' = add_package(packagelist, c.err, "SUB")
             /\ call' = [op |-> "init", args |-> a]
             /\ result' = Outcome("init", c.err, TRUE, 0, 0, 0)
             /\ trip' = <<Did("init", c.err)>>
    /\ UNCHANGED <<model, pop_key_list, ext_unit_dict, subfile, upw, upwfile, prevfile>>

\* A SUB file of another origin is there to be loaded.  load reads nper
\* only through the constructor it ends with; the files are loaded into the
\* models of MaxPer stress periods.
SubGiven ==
    /\ trip = <<>>
    /\ model.nper = MaxPer
    /\ \E t \in SubFiles(model) : subfile' = Some(t)
    /\ trip' = <<Did("file", "")>>
    /\ UNCHANGED <<model, packagelist, pop_key_list, ext_unit_dict, sub, upw, upwfile,
                   call, result, prevfile>>

\* sub.write_file()
SubWrite ==
    /\ IsVal(sub)
    /\ result.err = ""
    /\ Len(trip) <= MaxOps
    /\ LET w == SubWriteFile(sub.v)
       IN  /\ subfile' = Some(w.text)
           /\ sub' = Some(w.obj)
           /\ result' = Outcome("write", w.err, w.closed, NArrays(w.text),
                                w.ndprows, w.nindex)
           /\ trip' = Append(trip, Did("write", w.err))
    /\ call' = [op |-> "write"]
    /\ prevfile' = subfile
    /\ UNCHANGED <<model, packagelist, pop_key_list, ext_unit_dict, upw, upwfile>>

\* sub = ModflowSub.load(fn, model, ext_unit_dict)
SubLoadFile ==
    /\ IsVal(subfile)
    /\ trip # <<>>
    /\ result.err = ""
    /\ Len(trip) <= MaxOps
    /\ \E eud \in ExtUnitDictsFor(subfile.v) :
         LET l == SubLoad(subfile.v, model, eud)
         IN  /\ sub' = IF l.err = "" THEN l.obj ELSE sub
             /\ packagelist' = add_package(packagelist, l.err, "SUB")
             /\ pop_key_list' = add_pop_key_list(pop_key_list, l.parse.pops)
             /\ ext_unit_dict' = l.parse.eud
             /\ result' = Outcome("load", l.err, l.parse.closed, l.parse.narrays,
                                  l.parse.ndprows, l.parse.nindex)
             /\ call' = [op |-> "load", eud |-> eud]
             /\ trip' = Append(trip, Did("load", l.err))
    /\ prevfile' = subfile
    /\ UNCHANGED <<model, subfile, upw, upwfile>>

NextSub == SubConstruct \/ SubGiven \/ SubWrite \/ SubLoadFile

SpecSub == InitSub /\ [][NextSub]_vars

\* ------------------------------------------------------------- UPW actions
InitUpw ==
    /\ model \in {m \in HostModels(1..MaxLay,
                        {[i \in 1..MaxPer |-> TRUE], [i \in 1..MaxPer |-> i # 1]}) :
                     ~m.verbose}
    /\ InitCommon

\* upw = ModflowUpw(model, ...), called by the user.
UpwConstruct ==
    /\ trip = <<>>
    /\ \E a \in UpwCtorArgs(model) :
         /\ upw' = Some(ModflowUpw(model, a))
         /\ call' = [op |-> "init", args |-> a]
    /\ packagelist' = add_package(packagelist, "", "UPW")
    /\ result' = Outcome("init", "", TRUE, 0, 0, 0)
    /\ trip' = <<Did("init", "")>>
    /\ UNCHANGED <<model, pop_key_list, ext_unit_dict, sub, subfile, upwfile, prevfile>>

\* A UPW file of another origin is there to be loaded.
UpwGiven ==
    /\ trip = <<>>
    /\ \E t \in UpwFiles(model) : upwfile' = Some(t)
    /\ trip' = <<Did("file", "")>>
    /\ UNCHANGED <<model, packagelist, pop_key_list, ext_unit_dict, sub, subfile, upw,
                   call, result, prevfile>>

\* upw.write_file()
UpwWrite ==
    /\ IsVal(upw)
    /\ result.err = ""
    /\ Len(trip) <= MaxOps
    /\ LET w == UpwWriteFile(upw.v, model)
       IN  /\ upwfile' = Some(w.text)
           /\ result' = [Outcome("write", w.err, w.closed, NArrays(w.text), 0, 0)
                            EXCEPT !.layers = w.layers]
           /\ trip' = Append(trip, Did("write", w.err))
    /\ call' = [op |-> "write"]
    /\ prevfile' = upwfile
    /\ UNCHANGED <<model, packagelist, pop_key_list, ext_unit_dict, sub, subfile, upw>>

\* upw = ModflowUpw.load(fn, model)
UpwLoadFile ==
    /\ IsVal(upwfile)
    /\ trip # <<>>
    /\ result.err = ""
    /\ Len(trip) <= MaxOps
    /\ LET l == UpwLoad(upwfile.v, model)
       IN  /\ upw' = IF l.err = "" THEN l.obj ELSE upw
           /\ packagelist' = add_package(packagelist, l.err, "UPW")
           /\ pop_key_list' = add_pop_key_list(pop_key_list, l.pops)
           /\ result' = [Outcome("load", l.err, l.closed, l.narrays, 0, 0)
                            EXCEPT !.layers = l.layers]
           /\ trip' = Append(trip, Did("load", l.err))
    /\ call' = [op |-> "load"]
    /\ prevfile' = upwfile
    /\ UNCHANGED <<model, ext_unit_dict, sub, subfile, upwfile>>

NextUpw == UpwConstruct \/ UpwGiven \/ UpwWrite \/ UpwLoadFile

SpecUpw == InitUpw /\ [][NextUpw]_vars


\* ------------------------------------------------------------- file layout
\* Dataset 1 of the SUB file at hand, as load converts it, and the record
\* it stands in.
SubFileHeaderAt == SkipComments(subfile.v).pos
SubFileHeader == ParseSubHeader(HeaderTokens(subfile.v, SkipComments(subfile.v)))

\* The records a SUB file holds for the beds and for the output control of
\* a header h, by the input grammar.
IndexRecords(h) == (IF h.nndb > 0 THEN 1 ELSE 0) + (IF h.ndb > 0 THEN 1 ELSE 0)
NoDelayRecords(h) == Len(NoDelayFields) * h.nndb
DelayRecords(h) == IF h.ndb > 0 THEN h.ndb + Len(DelayFields) * h.ndb ELSE 0
ZoneRecords(h) == IF h.ndb > 0 THEN h.nmz ELSE 0
BedRecords(h) == IndexRecords(h) + NoDelayRecords(h) + DelayRecords(h) + ZoneRecords(h)
OutputRecords(h) == IF h.isuboc > 0 THEN 1 + h.isuboc ELSE 0

\* The last call was a load of a complete SUB file, with an ext_unit_dict
\* that names the restart unit of its header.
LoadedCompleteFile ==
    /\ result.op = "load"
    /\ IsVal(subfile)
    /\ SubFileHeader.err = ""
    /\ Len(subfile.v) = SubFileHeaderAt + BedRecords(SubFileHeader) + OutputRecords(SubFileHeader)
    /\ SubFileHeader.idrest > 0 =>
          (call.eud.tag = "val" /\ SubFileHeader.idrest \in call.eud.keys)

\* ------------------------------------------------------------------ C1
\* C1: the text write_file produces for a SUB model is accepted by load,
\* and writing the loaded model produces the same text again.
C1_RoundTrip ==
    /\ \A i \in 2..Len(trip) :
          (trip[i].op = "load" /\ trip[i - 1] = Did("write", ""))
             => trip[i].err = ""
    /\ (/\ Len(trip) >= 3
        /\ trip[Len(trip)].op = "write"
        /\ trip[Len(trip) - 1] = Did("load", "")
        /\ trip[Len(trip) - 2] = Did("write", ""))
          => (result.err = "" /\ subfile = prevfile)

\* ------------------------------------------------------------------ C2
ScenarioHeader ==
    <<IntTok(0), IntTok(0), IntTok(1), IntTok(1), IntTok(1), IntTok(20),
      FloatTok(0), FloatTok(2), IntTok(5), IntTok(0), IntTok(0)>>

HasScenarioFields(o) ==
    /\ o.isubcb = 0 /\ o.isuboc = 0 /\ o.nndb = 1 /\ o.ndb = 1 /\ o.nmz = 1
    /\ o.nn = 20 /\ o.ac1 = 0 /\ o.ac2 = 2 /\ o.itmin = 5
    /\ o.idsave = 0 /\ o.idrest = 0

\* C2: loading the header line "0 0 1 1 1 20 0.0 0.2 5 0 0" yields the
\* eleven fields isubcb=0 ... idrest=0, and write_file renders the header
\* of that model as exactly those eleven tokens in the same order.
C2_HeaderCodec ==
    /\ (LoadedCompleteFile
        /\ HeaderTokens(subfile.v, SkipComments(subfile.v)) = ScenarioHeader)
          => (result.err = "" /\ IsVal(sub) /\ HasScenarioFields(sub.v))
    /\ (result.op = "write" /\ IsVal(sub) /\ HasScenarioFields(sub.v))
          => HeaderTokens(subfile.v, SkipComments(subfile.v)) = ScenarioHeader

\* ------------------------------------------------------------------ C3
\* C3: for a SUB model with nndb = 0 and ndb = 0, load and write_file both
\* complete normally, consume or emit zero array blocks and no
\* material-zone row, whatever nmz is.
C3_ZeroCounts ==
    /\ (LoadedCompleteFile /\ SubFileHeader.nndb = 0 /\ SubFileHeader.ndb = 0)
          => (result.err = "" /\ result.narrays = 0 /\ result.ndprows = 0)
    /\ (result.op = "write" /\ IsVal(sub) /\ sub.v.nndb = 0 /\ sub.v.ndb = 0)
          => (result.err = "" /\ result.narrays = 0 /\ result.ndprows = 0)

\* ------------------------------------------------------------------ C4
ExactlyOneZero(h) == (h.nndb = 0 /\ h.ndb > 0) \/ (h.nndb > 0 /\ h.ndb = 0)

\* The section of the positive count is processed completely and the
\* section of the zero count not at all, its layer-index line included.
OneSectionOnly(h) ==
    /\ result.err = ""
    /\ result.nindex = 1
    /\ result.narrays = NoDelayRecords(h) + (IF h.ndb > 0 THEN h.ndb + Len(DelayFields) * h.ndb ELSE 0)
    /\ result.ndprows = ZoneRecords(h)

\* C4: when exactly one of nndb, ndb is zero, every field that depends on
\* the zero count (the material-zone table for ndb included) is absent
\* from the constructed model, and load and write_file consume or emit no
\* record for that section while processing the other section completely.
C4_SectionAbsence ==
    /\ (IsVal(sub) /\ ExactlyOneZero(sub.v))
          => /\ \A f \in (IF sub.v.nndb = 0 THEN NoDelayAttrs ELSE DelayAttrs) :
                   ~IsVal(sub.v.arr[f])
             /\ sub.v.ndb = 0 => sub.v.dp.tag \in {"None", "Unset"}
    /\ (LoadedCompleteFile /\ ExactlyOneZero(SubFileHeader))
          => OneSectionOnly(SubFileHeader)
    /\ (result.op = "write" /\ IsVal(sub) /\ ExactlyOneZero(sub.v))
          => OneSectionOnly(sub.v)

\* ------------------------------------------------------------------ C5
\* The layer-index lines of a file, in the order of its records.
IndexLinesAt(text, at, h) == [j \in 1..IndexRecords(h) |-> text[at + j]]

\* C5: load stores each entry of ln and ldn as the file value minus 1, and
\* load followed by write_file renders every layer-index vector read from
\* the file with its original one-based values.
C5_IndexRoundTrip ==
    /\ (LoadedCompleteFile /\ result.err = "" /\ IsVal(sub))
          => LET h == SubFileHeader
                 lines == IndexLinesAt(subfile.v, SubFileHeaderAt, h)
             IN  /\ h.nndb > 0 =>
                       sub.v.arr["ln"].v = [i \in 1..h.nndb |-> IntOf(lines[1].toks[i]) - 1]
                 /\ h.ndb > 0 =>
                       sub.v.arr["ldn"].v =
                          [i \in 1..h.ndb |-> IntOf(lines[IndexRecords(h)].toks[i]) - 1]
    /\ (/\ Len(trip) = 3
        /\ trip[1].op = "file" /\ trip[2] = Did("load", "") /\ trip[3].op = "write")
          => LET c == SkipComments(prevfile.v)
                 h == ParseSubHeader(HeaderTokens(prevfile.v, c))
                 lines == IndexLinesAt(prevfile.v, c.pos, h)
             IN  \A j \in 1..Len(lines) :
                    \E i \in 1..Len(subfile.v) : subfile.v[i] = lines[j]

\* ------------------------------------------------------------------ C6
NotAllSteady == \E i \in 1..model.nper : ~model.steady[i]

\* C6: write_file emits ss for layer k if and only if some stress period
\* is not steady-state, and sy for layer k if and only if that holds and
\* laytyp[k] # 0; when every stress period is steady-state the text holds
\* no ss and no sy array although the model holds values for both.
C6_TransientGating ==
    (result.op = "write" /\ IsVal(upw))
       => /\ \A k \in 1..Len(result.layers) :
                /\ ("ss" \in Range(result.layers[k])) <=> NotAllSteady
                /\ ("sy" \in Range(result.layers[k])) <=>
                      (NotAllSteady /\ upw.v.laytyp[k] # 0)
          /\ Cardinality({i \in 1..Len(upwfile.v) : upwfile.v[i].name = "ss"})
                = (IF NotAllSteady THEN Len(result.layers) ELSE 0)
          /\ Cardinality({i \in 1..Len(upwfile.v) : upwfile.v[i].name = "sy"})
                = (IF NotAllSteady
                   THEN Cardinality({k \in 1..Len(result.layers) : upw.v.laytyp[k] # 0})
                   ELSE 0)
          /\ Len(upw.v.arr["ss"]) = model.nlay /\ Len(upw.v.arr["sy"]) = model.nlay

\* A transient model of two layers or more, the first convertible and the
\* second confined, written to its end.
C6_Witness ==
    /\ result.op = "write" /\ result.err = "" /\ IsVal(upw)
    /\ NotAllSteady
    /\ Len(result.layers) = model.nlay /\ model.nlay >= 2
    /\ upw.v.laytyp[1] # 0 /\ upw.v.laytyp[2] = 0
    /\ "sy" \in Range(result.layers[1]) /\ "sy" \notin Range(result.layers[2])
    /\ "ss" \in Range(result.layers[2])

\* ------------------------------------------------------------------ C7
\* C7: constructing with isuboc = 1 and ids16 = None yields an ids16 table
\* of exactly one row of 17 entries, the first four (0, nper-1, 0, 9999)
\* and the remaining 13 all 1.
C7_DefaultOutputRow ==
    (/\ call.op = "init" /\ IsVal(sub) /\ result.err = ""
     /\ call.args.isuboc = 1 /\ call.args.ids16.tag = "None")
       => /\ sub.v.ids16.tag = "mat"
          /\ Len(sub.v.ids16.v) = 1
          /\ Len(sub.v.ids16.v[1]) = 17
          /\ sub.v.ids16.v[1][1] = 0
          /\ sub.v.ids16.v[1][2] = model.nper - 1
          /\ sub.v.ids16.v[1][3] = 0
          /\ sub.v.ids16.v[1][4] = 9999
          /\ \A i \in 5..17 : sub.v.ids16.v[1][i] = 1

\* Such a construction in a model of more than one stress period.
C7_Witness ==
    /\ call.op = "init" /\ IsVal(sub) /\ result.err = ""
    /\ call.args.isuboc = 1 /\ call.args.ids16.tag = "None"
    /\ model.nper > 1
    /\ sub.v.ids16.v[1][2] = model.nper - 1

\* ------------------------------------------------------------------ C8
\* The header declares isuboc > 0 and the text ends after the last array
\* record.
OutputBlockAbsent ==
    /\ IsVal(subfile)
    /\ SubFileHeader.err = ""
    /\ SubFileHeader.isuboc > 0
    /\ Len(subfile.v) = SubFileHeaderAt + BedRecords(SubFileHeader)

\* C8: when the header declares isuboc > 0 but the 12-integer vector and
\* the 17-integer rows are not in the text after the last array record,
\* load completes without error and the resulting model holds the default
\* output control (one row: every period, every time step, all flags 1).
C8_LoadDefaultFill ==
    (/\ result.op = "load"
     /\ OutputBlockAbsent
     /\ SubFileHeader.idrest > 0 =>
           (call.eud.tag = "val" /\ SubFileHeader.idrest \in call.eud.keys))
       => /\ result.err = ""
          /\ IsVal(sub)
          /\ sub.v.ids16.tag = "mat"
          /\ sub.v.ids16.v = <<[i \in 1..17 |-> CASE i = 1 -> 0
                                                  [] i = 2 -> model.nper - 1
                                                  [] i = 3 -> 0
                                                  [] i = 4 -> 9999
                                                  [] OTHER -> 1]>>

\* ------------------------------------------------------------------ C9
\* Dataset 15 as it stands in the file at hand.
FileIds15 == subfile.v[SubFileHeaderAt + BedRecords(SubFileHeader) + 1].toks

\* C9: after a load with isuboc > 0, the six unit entries of ids15
\* (0-based positions 1, 3, ..., 11) all equal the unit under which the
\* package registers its binary output file, the six format entries are
\* those of the file, and each unit value read from the file is
\* registered with the host model (add_pop_key_list).
C9_Ids15Remap ==
    (LoadedCompleteFile /\ result.err = "" /\ IsVal(sub) /\ SubFileHeader.isuboc > 0)
       => /\ IsVal(sub.v.ids15)
          /\ Len(sub.v.ids15.v) = 12
          /\ Len(sub.v.units) >= 2
          /\ sub.v.units[2].name = "DATA(BINARY)"
          /\ \A i \in 1..12 :
                IF i % 2 = 0
                THEN /\ sub.v.ids15.v[i] = sub.v.units[2].unit
                     /\ IntOf(FileIds15[i]) \in pop_key_list
                ELSE sub.v.ids15.v[i] = IntOf(FileIds15[i])

\* A load whose file gives six unit values that are not the shared unit.
C9_Witness ==
    /\ LoadedCompleteFile /\ result.err = "" /\ IsVal(sub)
    /\ SubFileHeader.isuboc > 0
    /\ \A i \in {2, 4, 6, 8, 10, 12} :
          /\ IntOf(FileIds15[i]) # sub.v.ids15.v[i]
          /\ IntOf(FileIds15[i]) \in pop_key_list
    /\ sub.v.ids15.v[1] = IntOf(FileIds15[1])

\* ----------------------------------------------------------------- C10
\* One header unit flag: positive in the file, it is replaced by its fixed
\* unit and the file value is registered; zero, it stays zero.
FlagRemapped(infile, inmodel, fixed) ==
    IF infile > 0 THEN inmodel = fixed /\ infile \in pop_key_list
    ELSE inmodel = infile

UpwFileFlag == IntOf(HeaderTokens(upwfile.v, SkipComments(upwfile.v))[1])

\* C10: for every header unit flag that is positive in the file (SUB
\* isubcb, idsave, idrest; UPW iupwcb), load replaces it by its fixed unit
\* and registers the file value with the host model; a flag that is zero
\* in the file stays zero and nothing is registered for it.
C10_HeaderUnitRemap ==
    /\ (LoadedCompleteFile /\ result.err = "" /\ IsVal(sub))
          => /\ FlagRemapped(SubFileHeader.isubcb, sub.v.isubcb, 53)
             /\ FlagRemapped(SubFileHeader.idsave, sub.v.idsave, 2052)
             /\ FlagRemapped(SubFileHeader.idrest, sub.v.idrest, 2053)
             /\ (SubFileHeader.isuboc = 0 /\ SubFileHeader.isubcb = 0
                 /\ SubFileHeader.idsave = 0 /\ SubFileHeader.idrest = 0)
                   => pop_key_list = {}
    /\ (result.op = "load" /\ result.err = "" /\ IsVal(upwfile) /\ IsVal(upw))
          => /\ FlagRemapped(UpwFileFlag, upw.v.iupwcb, 53)
             /\ UpwFileFlag = 0 => pop_key_list = {}

C12_HandleReleased ==
    result.op \in {"load", "write"} => result.closed

ZoneLine(row, k) == Line(<<FloatTok(row[1]), FloatTok(row[2]), FloatTok(row[3]), Comment(k)>>)

\* The material-zone rows of the complete file at hand.
FileZoneRow(k) ==
    subfile.v[SubFileHeaderAt + IndexRecords(SubFileHeader) + NoDelayRecords(SubFileHeader)
              + SubFileHeader.ndb + k]

\* C14: when ndb > 0, write_file emits exactly nmz table rows, row k the
\* three properties dp[k, 0..2] followed by a comment naming zone k+1, and
\* load consumes exactly nmz rows, taking the first three tokens of each;
\* when ndb = 0 no row is emitted or consumed.  (Stated for the models
\* with nndb > 0 when ndb > 0: with nndb = 0 write_file does not come to
\* the table, see C4.)
C14_ZoneTable ==
    /\ (result.op = "write" /\ IsVal(sub) /\ (sub.v.ndb > 0 => sub.v.nndb > 0))
          => IF sub.v.ndb > 0
             THEN /\ result.ndprows = sub.v.nmz
                  /\ \A k \in 1..sub.v.nmz :
                        \E i \in 1..Len(subfile.v) :
                           subfile.v[i] = ZoneLine(sub.v.dp.v[k], k)
             ELSE result.ndprows = 0
    /\ (LoadedCompleteFile /\ result.err = "")
          => IF SubFileHeader.ndb > 0
             THEN /\ result.ndprows = SubFileHeader.nmz
                  /\ sub.v.dp.tag = "mat"
                  /\ Len(sub.v.dp.v) = SubFileHeader.nmz
                  /\ \A k \in 1..SubFileHeader.nmz :
                        sub.v.dp.v[k] = [j \in 1..3 |-> FloatOf(FileZoneRow(k).toks[j])]
             ELSE result.ndprows = 0

\* ---------------------------------------------------------------------- C15
\* The first dimension of a model's array attribute, and the shape of a
\* numpy array.
EntriesOf(o, f) == IF IsVal(o.arr[f]) THEN Len(o.arr[f].v) ELSE -1
ShapeOf(nd) ==
    CASE nd.tag = "mat" -> <<Len(nd.v)>> \o (IF nd.v = <<>> THEN <<>> ELSE <<Len(nd.v[1])>>)
      [] nd.tag = "vec" -> <<Len(nd.v[1])>>
      [] OTHER -> <<>>

\* C15: after a construction, by a direct call (the documented defaults
\* included) or by load, ln, hc, sfe, sfv, com have nndb entries, ldn, rnb,
\* dstart, dhc, dcom, dz, nz have ndb entries, dp has the shape (nmz, 3)
\* and, with isuboc > 0, ids16 has the shape (isuboc, 17).  (The counts that
\* are zero leave their attributes unset; they are not held against the
\* statement.)
C15_LeadingDimensions ==
    (result.op \in {"init", "load"} /\ result.err = "" /\ IsVal(sub))
       => /\ sub.v.nndb > 0 => \A f \in NoDelayAttrs : EntriesOf(sub.v, f) = sub.v.nndb
          /\ sub.v.ndb > 0 => \A f \in DelayAttrs : EntriesOf(sub.v, f) = sub.v.ndb
          /\ (sub.v.ndb > 0 /\ sub.v.nmz > 0) => ShapeOf(sub.v.dp) = <<sub.v.nmz, 3>>
          /\ sub.v.isuboc > 0 => ShapeOf(sub.v.ids16) = <<sub.v.isuboc, NIds16>>

\* ---------------------------------------------------------------------- C16
\* What the message of an exception of the header conversion tells:
\* int(t[i]) and float(t[i]) raise ValueError with the literal that did not
\* convert ("invalid literal for int() with base 10: 'x'"); t[i] past the
\* end of the split line raises IndexError ("list index out of range").
\* Neither carries the name of the field.
ErrorIdentifies(err) == IF err = "ValueError" THEN {"token"} ELSE {}

\* The file at hand has a first non-comment line that is not a header: too
\* few tokens, or a token that does not convert.
SubHeaderMalformed ==
    IsVal(subfile) /\ SkipComments(subfile.v).err = "" /\ SubFileHeader.err # ""
UpwHeaderMalformed ==
    /\ IsVal(upwfile)
    /\ SkipComments(upwfile.v).err = ""
    /\ ParseUpwHeader(HeaderTokens(upwfile.v, SkipComments(upwfile.v))).err # ""

\* The loads of the script made no model: the package at hand, if any, is
\* the one the constructor call made and registered.
NoModelFromLoad ==
    /\ (IsVal(sub) \/ IsVal(upw)) => trip[1] = Did("init", "")
    /\ Len(packagelist) = (IF trip[1] = Did("init", "") THEN 1 ELSE 0)

\* C16: a load of a file whose header is malformed ends in an error that
\* identifies the offending token and the expected field name, consumes no
\* record after the header and produces no model.
C16_MalformedHeader ==
    (result.op = "load" /\ (SubHeaderMalformed \/ UpwHeaderMalformed))
       => /\ result.err # ""
          /\ {"token", "field"} \subseteq ErrorIdentifies(result.err)
          /\ result.narrays = 0 /\ result.nindex = 0 /\ result.ndprows = 0
          /\ NoModelFromLoad

\* The part of C16 the code keeps: the load fails at the header, reads
\* nothing after it and makes no model.
C16_FailsAtHeader ==
    (result.op = "load" /\ (SubHeaderMalformed \/ UpwHeaderMalformed))
       => /\ result.err \in {"ValueError", "IndexError"}
          /\ result.narrays = 0 /\ result.nindex = 0 /\ result.ndprows = 0
          /\ NoModelFromLoad

\* ---------------------------------------------------------------------- C17
\* The array records of layer k by the rule of the input grammar, from the
\* flags of the package at hand and the host model.
LayerRecordsByRule(k) ==
    <<"hk">>
    \o (IF upw.v.chani[k] < 1 THEN <<"hani">> ELSE <<>>)
    \o <<"vka">>
    \o (IF NotAllSteady THEN <<"ss">> ELSE <<>>)
    \o (IF NotAllSteady /\ upw.v.laytyp[k] # 0 THEN <<"sy">> ELSE <<>>)
    \o (IF model.laycbd[k] > 0 THEN <<"vkcb">> ELSE <<>>)
    \o (IF upw.v.laywet[k] # 0 /\ upw.v.laytyp[k] # 0 THEN <<"wetdry">> ELSE <<>>)

\* A write_file that completed has written, for every layer, the records of
\* the rule; a load that completed under flags write_file completes for
\* has consumed them.
LayerRecordsAgree ==
    (/\ IsVal(upw)
     /\ result.op \in {"write", "load"}
     /\ result.err = ""
     /\ result.op = "load" => \A k \in 1..model.nlay : ~UpwWetBranch(upw.v, k))
       => /\ Len(result.layers) = model.nlay
          /\ \A k \in 1..model.nlay : result.layers[k] = LayerRecordsByRule(k)
          /\ result.narrays = NArrays(upwfile.v)

\* C17: under every combination of flags for which write_file completes,
\* the array records write_file emits for layer k are, in order, the array
\* records load consumes for layer k, each decided by the flags of layer k:
\* both follow the rule, and the load of a text write_file completed is
\* a load that completes and consumes, layer by layer, what was written.
C17_SequenceAgreement ==
    /\ []LayerRecordsAgree
    /\ [][(result.op = "write" /\ result.err = "" /\ result'.op = "load")
             => (result'.err = "" /\ result'.layers = result.layers)]_vars

\* Two layers of different flags, written and loaded back.
C17_Witness ==
    /\ Len(trip) = 3
    /\ trip[2] = Did("write", "") /\ trip[3] = Did("load", "")
    /\ model.nlay >= 2 /\ NotAllSteady
    /\ upw.v.laytyp[1] = 0 /\ upw.v.laytyp[2] # 0
    /\ upw.v.chani[1] < 1 /\ upw.v.chani[2] >= 1
    /\ result.layers[1] = <<"hk", "hani", "vka", "ss">>
    /\ "sy" \in Range(result.layers[2])

\* ---------------------------------------------------------------------- C18
\* The kind of a record of the text and of a read of load: the array it
\* holds, or a line of numbers.
KindOfRecord(r) == IF r.kind = "array" THEN r.name ELSE "line"
KindOfItem(it) == IF it.op = "array" THEN it.name ELSE "line"

\* The records of the text at hand after the heading and dataset 1, and
\* the reads load makes after dataset 1 for the counts of the model at hand.
WrittenKinds == [n \in 1..(Len(subfile.v) - 2) |-> KindOfRecord(subfile.v[n + 2])]
ExpectedKinds ==
    LET plan == SubLoadPlan("", sub.v, model)
    IN  [n \in 1..Len(plan) |-> KindOfItem(plan[n])]

\* The section order of the claim, by the counts of a header.
OrderByRule(h) ==
    (IF h.nndb > 0 THEN <<"line">> ELSE <<>>)
    \o (IF h.ndb > 0 THEN <<"line">> ELSE <<>>)
    \o [k \in 1..h.ndb |-> "rnb"]
    \o Flatten([k \in 1..h.nndb |-> NoDelayFields])
    \o (IF h.ndb > 0 THEN [k \in 1..h.nmz |-> "line"] ELSE <<>>)
    \o Flatten([k \in 1..h.ndb |-> DelayFields])
    \o (IF h.isuboc > 0 THEN [k \in 1..(1 + h.isuboc) |-> "line"] ELSE <<>>)

\* C18: load reads, after the header, ln, ldn, rnb x ndb, (hc, sfe, sfv,
\* com) x nndb, the zone rows x nmz, (dstart, dhc, dcom, dz, nz) x ndb,
\* ids15 and ids16 x isuboc, in that order, and makes the model only after
\* the last of them; the n-th record write_file emits is of the kind of the
\* n-th read of load, for all the records it emits, and a write_file that
\* completes emits them all.
C18_RecordOrder ==
    /\ (result.op = "write" /\ IsVal(sub) /\ ~model.verbose)
          => /\ ExpectedKinds = OrderByRule(sub.v)
             /\ Len(WrittenKinds) <= Len(ExpectedKinds)
             /\ \A n \in 1..Len(WrittenKinds) : WrittenKinds[n] = ExpectedKinds[n]
             /\ result.err = "" => Len(WrittenKinds) = Len(ExpectedKinds)
    /\ (result.op = "load" /\ IsVal(subfile) /\ SubFileHeader.err = "")
          => IF Len(subfile.v) < SubFileHeaderAt + Len(OrderByRule(SubFileHeader))
             THEN result.err # "" /\ NoModelFromLoad
             ELSE result.err = "" =>
                     /\ result.nindex = IndexRecords(SubFileHeader)
                     /\ result.ndprows = ZoneRecords(SubFileHeader)
                     /\ result.narrays + result.ndprows + result.nindex
                           = BedRecords(SubFileHeader)
                     /\ \A n \in 1..Len(OrderByRule(SubFileHeader)) :
                           KindOfRecord(subfile.v[SubFileHeaderAt + n])
                              = OrderByRule(SubFileHeader)[n]

\* Two beds of each kind, two zones and two output rows, written to the end.
C18_Witness ==
    /\ result.op = "write" /\ result.err = "" /\ IsVal(sub)
    /\ sub.v.nndb = MaxBeds /\ sub.v.ndb = MaxBeds
    /\ sub.v.nmz = MaxZones /\ sub.v.isuboc = MaxOc
    /\ Len(WrittenKinds) = 2 + MaxBeds + 4 * MaxBeds + MaxZones + 5 * MaxBeds + 1 + MaxOc

\* ---------------------------------------------------------------------- C19
\* C19: write_file leaves every field of the SUB model as it was before the
\* call, the zero-based first four columns of the ids16 rows included, and
\* a second write_file right after a first that returned produces the text
\* of the first.
C19_WriteLeavesModel ==
    [][(result'.op = "write" /\ trip' # trip /\ IsVal(sub))
          => /\ sub' = sub
             /\ (result.op = "write" /\ result.err = "") => subfile' = subfile]_vars

\* What write_file keeps of the model: every field but ids16.
C19_OtherFieldsKept ==
    [][(result'.op = "write" /\ trip' # trip /\ IsVal(sub))
          => [sub'.v EXCEPT !.ids16 = sub.v.ids16] = sub.v]_vars

\* ---------------------------------------------------------------------- C20
\* The UPW file at hand has item 1 and its five flag lines, each with a
\* number for every layer; the laywet line is the fifth.
UpwFileFlagLine(j) == LineTokens(upwfile.v[SkipComments(upwfile.v).pos + j])
UpwFileHasFlags ==
    /\ IsVal(upwfile)
    /\ SkipComments(upwfile.v).err = ""
    /\ ParseUpwHeader(HeaderTokens(upwfile.v, SkipComments(upwfile.v))).err = ""
    /\ Len(upwfile.v) >= SkipComments(upwfile.v).pos + Len(UpwFlagNames)
    /\ \A j \in 1..Len(UpwFlagNames) :
          /\ Len(UpwFileFlagLine(j)) >= model.nlay
          /\ \A k \in 1..model.nlay :
                IF UpwFlagNames[j] = "chani" THEN FloatOk(UpwFileFlagLine(j)[k])
                ELSE IntOk(UpwFileFlagLine(j)[k])
UpwFileLaywet == [k \in 1..model.nlay |-> IntOf(UpwFileFlagLine(5)[k])]

\* C20: whenever some layer's laywet entry is not zero (negative entries
\* and vectors whose sum is not positive included), write_file of the model
\* and load of the file end in the wetting error.
C20_WetRejectionComplete ==
    /\ (result.op = "write" /\ IsVal(upw) /\ \E k \in 1..model.nlay : upw.v.laywet[k] # 0)
          => result.err = "Exception"
    /\ (result.op = "load" /\ UpwFileHasFlags /\ \E k \in 1..model.nlay : UpwFileLaywet[k] # 0)
          => result.err = "Exception"

\* What the test of the sum does reject: the vectors of positive sum.
C20_PositiveSumRejected ==
    /\ (result.op = "write" /\ IsVal(upw) /\ WetError(upw.v.laywet))
          => result.err = "Exception"
    /\ (result.op = "load" /\ UpwFileHasFlags /\ WetError(UpwFileLaywet))
          => result.err = "Exception"

====
